---- MODULE Spec2Model ----
(***************************************************************************)
(* SafePlates (src/app.py): a three-node LangGraph workflow                *)
(*   START -> recipe_generator -> [human_feedback_handler ->]              *)
(*            recipe_finalizer -> END                                       *)
(* compiled with a MemorySaver checkpointer and an interrupt before        *)
(* human_feedback_handler, driven by the Gradio generator process_request. *)
(*                                                                         *)
(* State of the model:                                                     *)
(*   memory  the MemorySaver: per thread id the latest checkpoint          *)
(*   state, user_id  the gr.State values, which the server holds per       *)
(*           session of a page                                             *)
(*   gsid    per page, how often it has been reloaded: a page and its      *)
(*           reload count make a session                                   *)
(*   ghist, gmsg  the chatbot and msg values, which the page holds         *)
(*   calls   per event listener, the chain of events it is running: the    *)
(*           process_request call with its locals and its position, or     *)
(*           the step of the chain before or after it                      *)
(*   last    the call that ended last (returned or raised), as it ended     *)
(*   execs   per thread and node, how often the node ran to completion     *)
(*   nextId  the next thread id uuid.uuid4() hands out                     *)
(*   ncalls  number of user actions so far: messages submitted, example    *)
(*           buttons clicked, pages reloaded                               *)
(* Four specifications: Spec, in which the user waits for a call to end    *)
(* before triggering the next event (the properties of a single call are   *)
(* stated under it); SpecQueued, in which events are triggered and the     *)
(* page is reloaded while a call is in progress, the calls of              *)
(* process_request waiting for each other; SpecSessions, in                *)
(* which the calls of two browser sessions interleave freely (more than    *)
(* the queue allows), each user waiting for the own call only; and         *)
(* SpecRestart, in which the calls run one                                 *)
(* after the other, the page is not reloaded and the server process may    *)
(* be restarted between calls.                                             *)
(* Texts are opaque strings, except the classifier's answer, which is a    *)
(* sequence of characters in which the marker 'ALLERGENES FOUND' is one    *)
(* symbol, so that split / strip / [2:] are computed as Python does.       *)
(***************************************************************************)
EXTENDS Integers, Sequences, FiniteSets, TLC

VARIABLES memory, state, user_id, gsid, ghist, gmsg, calls, last, execs, nextId, ncalls

vars == <<memory, state, user_id, gsid, ghist, gmsg, calls, last, execs, nextId, ncalls>>

----------------------------------------------------------------------------
(* Bounds of the model *)

\* total number of user actions (messages, example clicks, page reloads) in
\* one behaviour, when the user waits for a call to end
MaxCalls == 3
\* total number of user actions in one behaviour, when events are triggered
\* while calls are in progress
MaxConcCalls == 3
\* number of chains of events in progress at the same time
MaxInFlight == 2
\* longest classifier answer, in symbols
MaxResp == 2

\* the browser sessions; each holds its own state, user_id and chatbot values
Clients == {1}
MaxOf(a, b) == IF a < b THEN b ELSE a
ThreadIds == 1..MaxOf(MaxCalls, MaxConcCalls)
\* how often a page may have been reloaded
Reloads == 0..MaxOf(MaxCalls, MaxConcCalls)

----------------------------------------------------------------------------
(* Texts *)

MARKER == "ALLERGENES FOUND"

\* the characters a classifier answer is made of
Alphabet == {MARKER, " ", "d"}

RECURSIVE SeqsUpTo(_, _)
SeqsUpTo(S, n) ==
    IF n = 0 THEN { <<>> }
    ELSE LET shorter == SeqsUpTo(S, n - 1)
         IN  shorter \cup { Append(s, x) : s \in { t \in shorter : Len(t) = n - 1 }, x \in S }

\* what the classification call may answer
Responses == SeqsUpTo(Alphabet, MaxResp)

\* what a text completion may answer (recipe, revised recipe)
Texts == {"t1", "t2"}

\* what the user may type into the textbox
Messages == {"", "m1"}

\* Python's None, as the value of msg and of what is made of it
None == "None"

\* Python: marker in text
Contains(s, x) == \E i \in 1..Len(s) : s[i] = x

\* index of the first marker, 0 if there is none
FirstIdx(s, x) ==
    IF Contains(s, x) THEN CHOOSE i \in 1..Len(s) : s[i] = x /\ \A j \in 1..(i - 1) : s[j] # x
    ELSE 0

\* Python: len(text.split(marker))
SplitLen(s, x) == Cardinality({ i \in 1..Len(s) : s[i] = x }) + 1

\* Python: text.split(marker)[1], defined when SplitLen(s, x) > 1
SplitSecond(s, x) ==
    LET rest == SubSeq(s, FirstIdx(s, x) + 1, Len(s))
    IN  IF Contains(rest, x) THEN SubSeq(rest, 1, FirstIdx(rest, x) - 1) ELSE rest

\* Python: text.strip()
RECURSIVE Strip(_)
Strip(s) ==
    IF s = <<>> THEN s
    ELSE IF s[1] = " " THEN Strip(Tail(s))
    ELSE IF s[Len(s)] = " " THEN Strip(SubSeq(s, 1, Len(s) - 1))
    ELSE s

\* Python: text[2:]
Slice2(s) == SubSeq(s, 3, Len(s))

----------------------------------------------------------------------------
(* Python dicts: functions from the keys that are set *)

EmptyDict == [k \in {} |-> ""]

Has(d, k) == k \in DOMAIN d

Upd(d, k, v) == [x \in DOMAIN d \cup {k} |-> IF x = k THEN v ELSE d[x]]

\* d overwritten by the keys of e
Merge(d, e) == [x \in DOMAIN d \cup DOMAIN e |-> IF x \in DOMAIN e THEN e[x] ELSE d[x]]

\* Python: "k" in state and state["k"], for a string value
TruthyStr(d, k) == Has(d, k) /\ d[k] # "" /\ d[k] # None

\* Python: "k" in state and state["k"], for a boolean value
TruthyBool(d, k) == Has(d, k) /\ d[k]

----------------------------------------------------------------------------
(* The graph: nodes, edges, interrupt *)

START == "__start__"
END == "__end__"

Nodes == {"recipe_generator", "human_feedback_handler", "recipe_finalizer"}

\* variant: the graph is compiled without an interrupt
NoInterrupt == {}

\* interrupt_before of graph_builder.compile
InterruptBefore == {"human_feedback_handler"}

\* the prompt of the first completion call of recipe_generator
GeneratePrompt(s) == <<"Generate a detailed recipe for: ", s["recipe_request"]>>

\* the prompt of the second completion call of recipe_generator
ClassifyPrompt(recipe) == <<"Analyze this recipe for common allergenes ...: ", recipe>>

\* the prompt of the completion call of recipe_finalizer
RevisePrompt(s) ==
    <<"Modify this recipe according to dietary restrictions: ", s["recipe"],
      "\nRestrictions: ", s["human_feedback"]>>

\* what the classifier's answer says: 'ALLERGENES FOUND ...' or not
Verdict(resp) == IF Contains(resp, MARKER) THEN "found" ELSE "not found"

\* variant: split never falls short, recipe_generator returns on every answer
GeneratorNeverRaises(resp) == FALSE

\* recipe_generator raises (IndexError) on a classifier answer without the marker
GeneratorRaises(resp) == SplitLen(resp, MARKER) < 2

\* the state recipe_generator returns, given the answers of its two calls
recipe_generator(s, recipe, resp) ==
    LET s1 == Upd(s, "recipe", recipe)
        s2 == Upd(s1, "allergenes", Strip(SplitSecond(resp, MARKER)))
    IN  Upd(s2, "allergenes_detected", Contains(resp, MARKER))

\* variant: human_feedback_handler already stores the recipe as the result
human_feedback_handler_sets_result(s) ==
    Upd(Upd(s, "allergenes_detected", FALSE), "final_recipe", s["recipe"])

\* the state human_feedback_handler returns
human_feedback_handler(s) == Upd(s, "allergenes_detected", FALSE)

\* variant: the capability is called whenever the human_feedback key is set
FinalizerCallsIfKey(s) == Has(s, "human_feedback")

\* recipe_finalizer calls the capability iff human_feedback is set and non-empty
FinalizerCalls(s) == TruthyStr(s, "human_feedback")

\* variant: recipe_finalizer raises the allergen flag again
recipe_finalizer_sets_flag(s, revision) ==
    Upd(IF TruthyStr(s, "human_feedback") THEN Upd(s, "final_recipe", revision)
        ELSE Upd(s, "final_recipe", s["recipe"]),
        "allergenes_detected", TRUE)

\* the state recipe_finalizer returns; revision is the answer of its call, if made
recipe_finalizer(s, revision) ==
    IF FinalizerCalls(s) THEN Upd(s, "final_recipe", revision)
    ELSE Upd(s, "final_recipe", s["recipe"])

\* variant: the edge to human_feedback_handler is taken whatever the flag is
allergenes_check_condition_unconditional(s) == "human_feedback_handler"

\* the function of the conditional edges after recipe_generator
allergenes_check_condition(s) ==
    IF s["allergenes_detected"] THEN "human_feedback_handler" ELSE "recipe_finalizer"

\* the node the edges lead to from node n, the state being s
NextNode(n, s) ==
    CASE n = START -> "recipe_generator"
      [] n = "recipe_generator" -> allergenes_check_condition(s)
      [] n = "human_feedback_handler" -> "recipe_finalizer"
      [] n = "recipe_finalizer" -> END

----------------------------------------------------------------------------
(* The checkpointer (MemorySaver) and the compiled graph's operations *)

\* a thread that has no checkpoint yet
NoCkpt == [exists |-> FALSE, values |-> EmptyDict, next |-> END, last |-> START, writes |-> 0]

\* graph.get_state(config).values
get_state(ck) == ck.values

\* graph.update_state(config, values): the values are written as an update of
\* the node that ran last on the thread (START if none has), that node's
\* outgoing edge is taken again, and one more checkpoint is stored
update_state(ck, values) ==
    LET merged == Merge(ck.values, values)
    IN  [exists |-> TRUE, values |-> merged, next |-> NextNode(ck.last, merged),
         last |-> ck.last, writes |-> ck.writes + 1]

\* graph.stream(input, config) with an input: the input is written over the
\* thread's values, pending nodes are dropped, the graph restarts at START;
\* a checkpoint is stored for the input and one for the START step
StreamInput(ck, input) ==
    [exists |-> TRUE, values |-> Merge(ck.values, input), next |-> NextNode(START, input),
     last |-> START, writes |-> ck.writes + 2]

\* the checkpoint stored after node n returned out
AfterNode(ck, n, out) ==
    [exists |-> TRUE, values |-> out, next |-> NextNode(n, out), last |-> n,
     writes |-> ck.writes + 1]

----------------------------------------------------------------------------
(* The Gradio front end *)

\* the event listeners that run process_request: msg.submit and the chains
\* of the example buttons; each listener runs one call at a time
ExampleButtons == {"example_button1", "example_button2", "example_button3"}
Listeners == {"msg"} \cup ExampleButtons

\* load_example(example_num), for the numbers the buttons pass
load_example(b) ==
    CASE b = "example_button1" -> "I want a recipe for a lemon cake"
      [] b = "example_button2" -> "I want a recipe for chocolate cookies"
      [] b = "example_button3" -> "I want a recipe for banana bread"

\* a chatbot entry (user, bot); bot texts are sequences of pieces
Entry(user, bot) == [user |-> user, bot |-> bot]

GeneratingEntry(m) == Entry(m, <<"Generating recipe...">>)
UpdatingEntry(m) == Entry(m, <<"Updating recipe...">>)
AskEntry(allergenes) ==
    Entry("None", <<"Are you allergic to any of the following ingredients:\n">>
                  \o Slice2(allergenes)
                  \o <<"\nIf so, please specify which ones.">>)
RecipeEntry(recipe) == Entry("None", <<recipe>>)
\* variant: the final entry does not show the recipe
FinalEntryBare(final) == Entry("None", <<"Here's your final recipe:\n\n">>)

FinalEntry(final) == Entry("None", <<"Here's your final recipe:\n\n", final>>)

\* a listener that has not run a call yet
IdleCall ==
    [pc |-> "idle", client |-> 0, message |-> "", history |-> <<>>, state |-> EmptyDict,
     user_id |-> 0, started |-> FALSE, loc |-> EmptyDict, nxt |-> END,
     kind |-> "none", ran |-> <<>>, failedNode |-> "none", failure |-> "none",
     found |-> "none", prompts |-> <<>>, answer |-> "", pre |-> NoCkpt,
     sid |-> 0, genOut |-> EmptyDict, behind |-> FALSE, sawPaused |-> FALSE]

\* the gr.State values of the session a page is in
gstate == [c \in DOMAIN gsid |-> state[<<c, gsid[c]>>]]
guid == [c \in DOMAIN gsid |-> user_id[<<c, gsid[c]>>]]

\* the session whose page triggered call k
SessionOf(k) == <<k.client, k.sid>>

\* the page that triggered call k has been reloaded since
Detached(k) == k.client \in DOMAIN gsid /\ k.sid # gsid[k.client]

\* a listener whose chain has run load_example for browser session c and has
\* process_request still to start
LoadedCall(c) == [IdleCall EXCEPT !.pc = "loaded", !.client = c, !.sid = gsid[c]]

\* a listener whose process_request call has ended and whose chain has the
\* trailing .then(lambda: None, outputs=[msg]) still to run
ClearingCall(c) == [IdleCall EXCEPT !.pc = "clear", !.client = c, !.sid = gsid[c]]

Running(l) == calls[l].pc # "idle"

Init ==
    /\ memory = [t \in ThreadIds |-> NoCkpt]
    /\ state = [s \in Clients \X Reloads |-> EmptyDict]
    /\ user_id = [s \in Clients \X Reloads |-> 0]
    /\ gsid = [c \in Clients |-> 0]
    /\ ghist = [c \in Clients |-> <<>>]
    /\ gmsg = [c \in Clients |-> None]
    /\ calls = [l \in Listeners |-> IdleCall]
    /\ last = IdleCall
    /\ execs = [t \in ThreadIds |-> [n \in Nodes |-> 0]]
    /\ nextId = 1
    /\ ncalls = 0

\* variant: state, user_id and chatbot are values of the process, shared by
\* all browser sessions
StartCallSharedValues(l, c, m) ==
    /\ calls' = [calls EXCEPT ![l] =
                    [IdleCall EXCEPT !.pc = "begin", !.client = 1, !.sid = gsid[1],
                                     !.message = m, !.history = ghist[1]]]
    /\ UNCHANGED <<memory, state, user_id, gsid, ghist, last, execs, nextId>>

\* a call of process_request of the same session is waiting or running
Pending(c) ==
    \E l \in Listeners :
        calls[l].client = c /\ calls[l].sid = gsid[c] /\ calls[l].pc \in {"begin", "stream"}

\* the thread of the page's session stands before a node of interrupt_before
PagePaused(c) ==
    guid[c] # 0 /\ memory[guid[c]].exists /\ memory[guid[c]].next \in InterruptBefore

\* an event asks for process_request on listener l: the page sends the
\* current values of msg and chatbot; state and user_id are values of the
\* session, which the call is given when it starts
StartCall(l, c, m) ==
    /\ calls' = [calls EXCEPT ![l] =
                    [IdleCall EXCEPT !.pc = "begin", !.client = c, !.sid = gsid[c],
                                     !.message = m, !.history = ghist[c],
                                     !.behind = Pending(c), !.sawPaused = PagePaused(c)]]
    /\ UNCHANGED <<memory, state, user_id, gsid, ghist, last, execs, nextId>>

\* msg.submit: the user has typed m into msg and presses Enter
Submit(c, m) ==
    /\ ~Running("msg")
    /\ gmsg' = [gmsg EXCEPT ![c] = m]
    /\ ncalls' = ncalls + 1
    /\ StartCall("msg", c, m)

\* example_buttonN.click: load_example runs and its result is put into msg;
\* process_request is the next event of the chain
ExampleClick(b, c) ==
    /\ ~Running(b)
    /\ gmsg' = [gmsg EXCEPT ![c] = load_example(b)]
    /\ calls' = [calls EXCEPT ![b] = LoadedCall(c)]
    /\ ncalls' = ncalls + 1
    /\ UNCHANGED <<memory, state, user_id, gsid, ghist, last, execs, nextId>>

\* .then(process_request, ...) of a button's chain: the call gets what msg,
\* chatbot, state and user_id hold now
ThenProcessRequest(b) ==
    /\ calls[b].pc = "loaded"
    /\ StartCall(b, calls[b].client, gmsg[calls[b].client])
    /\ UNCHANGED <<gmsg, ncalls>>

\* .then(lambda: None, inputs=[], outputs=[msg]), the last event of every chain
ClearMsg(l) ==
    /\ calls[l].pc = "clear"
    /\ gmsg' = [gmsg EXCEPT ![calls[l].client] = None]
    /\ calls' = [calls EXCEPT ![l] = IdleCall]
    /\ UNCHANGED <<memory, state, user_id, gsid, ghist, last, execs, nextId, ncalls>>

\* page c has no chain of events in progress
Idle(c) == \A l \in Listeners : calls[l].client # c \/ Detached(calls[l])

\* what becomes of a chain of events of a page when the page is reloaded: the
\* page triggers the .then events of a chain, so a chain that waits for one
\* ends; a call of process_request belongs to the server
Reloaded(k) == IF k.pc \in {"loaded", "clear"} THEN IdleCall ELSE k

\* refresh_button.click: chatbot, state and user_id are set to None and the
\* page is reloaded, whatever the page is doing: the page comes back in a new
\* session, with the initial values.  The checkpoints stay as they are.  (On
\* a page that holds no session and runs nothing the click changes nothing.)
Refresh(c) ==
    /\ guid[c] # 0 \/ ~Idle(c)
    /\ state' = [state EXCEPT ![<<c, gsid[c]>>] = EmptyDict]
    /\ user_id' = [user_id EXCEPT ![<<c, gsid[c]>>] = 0]
    /\ gsid' = [gsid EXCEPT ![c] = @ + 1]
    /\ ghist' = [ghist EXCEPT ![c] = <<>>]
    /\ gmsg' = [gmsg EXCEPT ![c] = None]
    /\ calls' = [l \in Listeners |->
                    IF calls[l].client = c /\ calls[l].sid = gsid[c]
                    THEN Reloaded(calls[l]) ELSE calls[l]]
    /\ ncalls' = ncalls + 1
    /\ UNCHANGED <<memory, last, execs, nextId>>

\* a call whose page has been reloaded is ended by the server before it has
\* run to its end; it neither returns nor raises
DropCall(l) ==
    /\ Running(l)
    /\ Detached(calls[l])
    /\ calls' = [calls EXCEPT ![l] = IdleCall]
    /\ UNCHANGED <<memory, state, user_id, gsid, ghist, gmsg, last, execs, nextId, ncalls>>

\* outputs=[chatbot, ...] of process_request: a yield sets the chatbot of the
\* page that triggered call k, unless that page has been reloaded since
Output(f, k, v) == IF Detached(k) THEN f ELSE [f EXCEPT ![k.client] = v]

\* the chain of call k once the call has ended
AfterCall(k) == IF Detached(k) THEN IdleCall ELSE ClearingCall(k.client)

\* no chain of events is in progress
Quiet == \A l \in Listeners : ~Running(l)

\* variant: a state is taken as new as long as recipe_generator has not returned
IsNewIfUnflagged(st) == ~Has(st, "allergenes_detected")

\* which branch of the first if/elif of process_request a state takes
IsNew(st) == st = EmptyDict

\* variant: every message after the first is taken as feedback
IsFeedbackWhenNotNew(st) == ~IsNew(st)

IsFeedback(st) == ~IsNew(st) /\ TruthyBool(st, "allergenes_detected")

\* process_request up to its first yield
process_request(l) ==
    LET k == calls[l]
        state0 == state[SessionOf(k)]
        user_id0 == user_id[SessionOf(k)]
        uid == IF user_id0 = 0 THEN nextId ELSE user_id0
        st == IF IsNew(state0) THEN [x \in {"recipe_request"} |-> k.message]
              ELSE IF IsFeedback(state0) THEN Upd(state0, "human_feedback", k.message)
              ELSE state0
        h == IF IsNew(state0) THEN <<GeneratingEntry(k.message)>>
             ELSE IF IsFeedback(state0) THEN Append(k.history, UpdatingEntry(k.message))
             ELSE k.history
        kind == IF IsNew(state0) THEN "new"
                ELSE IF IsFeedback(state0) THEN "feedback" ELSE "other"
    IN  /\ k.pc = "begin"
        /\ memory' = IF IsFeedback(state0)
                     THEN [memory EXCEPT ![uid] = update_state(memory[uid], st)]
                     ELSE memory
        /\ calls' = [calls EXCEPT ![l] =
                        [k EXCEPT !.pc = "stream", !.state = st, !.user_id = uid,
                                  !.history = h, !.kind = kind, !.pre = memory[uid]]]
        /\ ghist' = Output(ghist, k, h)
        /\ state' = [state EXCEPT ![SessionOf(k)] = st]
        /\ user_id' = [user_id EXCEPT ![SessionOf(k)] = uid]
        /\ nextId' = IF user_id0 = 0 THEN nextId + 1 ELSE nextId
        /\ UNCHANGED <<gsid, gmsg, last, execs, ncalls>>

----------------------------------------------------------------------------
(* The for loop of process_request over graph.stream *)

\* variant: the stream is always given the state as input
StreamAlwaysHasInput(k) == TRUE

\* line 148: the stream gets the state as input unless it carries human_feedback
StreamHasInput(k) == ~Has(k.state, "human_feedback")

\* the thread's checkpoint once the stream of call l has been opened
Opened(l) ==
    LET k == calls[l]
    IN  IF ~k.started /\ StreamHasInput(k) THEN StreamInput(memory[k.user_id], k.state)
        ELSE memory[k.user_id]

\* the stream's own copy of the values and of the node to run next
Loc(l) == IF calls[l].started THEN calls[l].loc ELSE Opened(l).values
Nxt(l) == IF calls[l].started THEN calls[l].nxt ELSE Opened(l).next

\* graph.stream(...) is entered: given an input it stores the input and the
\* START step, given None it takes up the thread's checkpoint; the stream
\* works on its own copy of the values from here on
OpenStream(l) ==
    LET k == calls[l]
    IN  /\ k.pc = "stream"
        /\ ~k.started
        /\ memory' = [memory EXCEPT ![k.user_id] = Opened(l)]
        /\ calls' = [calls EXCEPT ![l] =
                        [k EXCEPT !.started = TRUE, !.loc = Opened(l).values,
                                  !.nxt = Opened(l).next]]
        /\ UNCHANGED <<state, user_id, gsid, ghist, gmsg, last, execs, nextId, ncalls>>

\* a node of interrupt_before is run only as the first step of a resumed stream
CanRun(l, n) ==
    /\ calls[l].pc = "stream"
    /\ calls[l].started
    /\ Nxt(l) = n
    /\ n \in InterruptBefore => (calls[l].ran = <<>> /\ ~StreamHasInput(calls[l]))

\* node n returned out: the checkpoint is stored, the event is handled by the
\* loop body (get_state, history) and the loop yields
NodeDone(l, n, out, entries, prompts, answer, found) ==
    LET k == calls[l]
        ck == AfterNode(Opened(l), n, out)
        st == get_state(ck)
        h == k.history \o entries
    IN  /\ memory' = [memory EXCEPT ![k.user_id] = ck]
        /\ calls' = [calls EXCEPT ![l] =
                        [k EXCEPT !.started = TRUE, !.loc = out, !.nxt = ck.next,
                                  !.state = st, !.history = h, !.ran = Append(@, n),
                                  !.prompts = @ \o prompts, !.answer = answer,
                                  !.found = found,
                                  !.genOut = IF n = "recipe_generator" THEN out ELSE @]]
        /\ ghist' = Output(ghist, k, h)
        /\ state' = [state EXCEPT ![SessionOf(k)] = st]
        /\ user_id' = [user_id EXCEPT ![SessionOf(k)] = k.user_id]
        /\ execs' = [execs EXCEPT ![k.user_id][n] = @ + 1]
        /\ UNCHANGED <<gsid, gmsg, last, nextId, ncalls>>

\* variant: a node that raises leaves the thread without a node to run
NodeRaisedDropsNode(l, n, failure, found, prompts) ==
    LET k == calls[l]
    IN  /\ memory' = [memory EXCEPT ![k.user_id] = [Opened(l) EXCEPT !.next = END]]
        /\ last' = [k EXCEPT !.pc = "failed", !.started = TRUE, !.loc = Loc(l),
                              !.nxt = Nxt(l), !.failedNode = n,
                              !.failure = failure, !.found = found,
                              !.prompts = @ \o prompts]
        /\ calls' = [calls EXCEPT ![l] = AfterCall(k)]
        /\ UNCHANGED <<state, user_id, gsid, ghist, gmsg, execs, nextId, ncalls>>

\* variant: what a call has yielded is discarded when the call raises, the
\* browser session keeps the state it had before the call
NodeRaisedDiscardsYields(l, n, failure, found, prompts) ==
    LET k == calls[l]
    IN  /\ memory' = [memory EXCEPT ![k.user_id] = Opened(l)]
        /\ last' = [k EXCEPT !.pc = "failed", !.started = TRUE, !.loc = Loc(l),
                              !.nxt = Nxt(l), !.failedNode = n,
                              !.failure = failure, !.found = found,
                              !.prompts = @ \o prompts]
        /\ calls' = [calls EXCEPT ![l] = AfterCall(k)]
        /\ state' = [state EXCEPT ![SessionOf(k)] = k.pre.values]
        /\ UNCHANGED <<user_id, gsid, ghist, gmsg, execs, nextId, ncalls>>

\* node n raised: the exception leaves stream and process_request; nothing of
\* the node is stored and nothing more is yielded
NodeRaised(l, n, failure, found, prompts) ==
    LET k == calls[l]
    IN  /\ memory' = [memory EXCEPT ![k.user_id] = Opened(l)]
        /\ last' = [k EXCEPT !.pc = "failed", !.started = TRUE, !.loc = Loc(l),
                              !.nxt = Nxt(l), !.failedNode = n,
                              !.failure = failure, !.found = found,
                              !.prompts = @ \o prompts]
        /\ calls' = [calls EXCEPT ![l] = AfterCall(k)]
        /\ UNCHANGED <<state, user_id, gsid, ghist, gmsg, execs, nextId, ncalls>>

\* the entry the loop body appends for a recipe_generator event
GeneratorEntry(out) ==
    IF out["allergenes_detected"] THEN AskEntry(out["allergenes"])
    ELSE RecipeEntry(out["recipe"])

RunGenerator(l) ==
    /\ CanRun(l, "recipe_generator")
    /\ \E recipe \in Texts, resp \in Responses :
          /\ ~GeneratorRaises(resp)
          /\ LET out == recipe_generator(Loc(l), recipe, resp)
             IN  NodeDone(l, "recipe_generator", out, <<GeneratorEntry(out)>>,
                          <<GeneratePrompt(Loc(l)), ClassifyPrompt(recipe)>>, recipe,
                          Verdict(resp))

\* recipe_generator raises: its first call fails, or its second call fails, or
\* the classifier's answer has no marker
FailGenerator(l) ==
    /\ CanRun(l, "recipe_generator")
    /\ \/ NodeRaised(l, "recipe_generator", "GenerationError", "none",
                     <<GeneratePrompt(Loc(l))>>)
       \/ \E recipe \in Texts :
             NodeRaised(l, "recipe_generator", "GenerationError", "none",
                        <<GeneratePrompt(Loc(l)), ClassifyPrompt(recipe)>>)
       \/ \E recipe \in Texts, resp \in Responses :
             /\ GeneratorRaises(resp)
             /\ NodeRaised(l, "recipe_generator", "IndexError", Verdict(resp),
                           <<GeneratePrompt(Loc(l)), ClassifyPrompt(recipe)>>)

RunHandler(l) ==
    /\ CanRun(l, "human_feedback_handler")
    /\ NodeDone(l, "human_feedback_handler", human_feedback_handler(Loc(l)),
                <<>>, <<>>, calls[l].answer, calls[l].found)

RunFinalizer(l) ==
    /\ CanRun(l, "recipe_finalizer")
    /\ IF FinalizerCalls(Loc(l))
       THEN \E revision \in Texts :
               LET out == recipe_finalizer(Loc(l), revision)
               IN  NodeDone(l, "recipe_finalizer", out, <<FinalEntry(out["final_recipe"])>>,
                            <<RevisePrompt(Loc(l))>>, revision, calls[l].found)
       ELSE LET out == recipe_finalizer(Loc(l), "")
            IN  NodeDone(l, "recipe_finalizer", out, <<FinalEntry(out["final_recipe"])>>,
                         <<>>, calls[l].answer, calls[l].found)

\* the completion call of recipe_finalizer fails
FailFinalizer(l) ==
    /\ CanRun(l, "recipe_finalizer")
    /\ FinalizerCalls(Loc(l))
    /\ NodeRaised(l, "recipe_finalizer", "GenerationError", calls[l].found,
                  <<RevisePrompt(Loc(l))>>)

\* the stream has no further event: the graph reached END or stands before a
\* node of interrupt_before; process_request returns
StreamEnd(l) ==
    /\ calls[l].pc = "stream"
    /\ calls[l].started
    /\ Nxt(l) \notin Nodes \/ ~CanRun(l, Nxt(l))
    /\ memory' = [memory EXCEPT ![calls[l].user_id] = Opened(l)]
    /\ last' = [calls[l] EXCEPT !.pc = "done", !.started = TRUE, !.loc = Loc(l),
                                 !.nxt = Nxt(l)]
    /\ calls' = [calls EXCEPT ![l] = AfterCall(calls[l])]
    /\ UNCHANGED <<state, user_id, gsid, ghist, gmsg, execs, nextId, ncalls>>

\* the steps of a call of process_request after its first yield
StreamStep ==
    \/ \E l \in Listeners : OpenStream(l)
    \/ \E l \in Listeners : RunGenerator(l)
    \/ \E l \in Listeners : FailGenerator(l)
    \/ \E l \in Listeners : RunHandler(l)
    \/ \E l \in Listeners : RunFinalizer(l)
    \/ \E l \in Listeners : FailFinalizer(l)
    \/ \E l \in Listeners : StreamEnd(l)

\* the steps of a chain of events in progress
CallStep ==
    \/ \E b \in ExampleButtons : ThenProcessRequest(b)
    \/ \E l \in Listeners : process_request(l)
    \/ StreamStep
    \/ \E l \in Listeners : ClearMsg(l)

\* the user waits for a chain of events to end before triggering the next event
Next ==
    \/ \E c \in Clients, m \in Messages : Quiet /\ ncalls < MaxCalls /\ Submit(c, m)
    \/ \E b \in ExampleButtons, c \in Clients :
          Quiet /\ ncalls < MaxCalls /\ ExampleClick(b, c)
    \/ \E c \in Clients : Quiet /\ ncalls < MaxCalls /\ Refresh(c)
    \/ CallStep

Spec == Init /\ [][Next]_vars

\* the example button clicked while calls are in progress: the three chains
\* differ in the message only, one bounds the interleavings
ConcButtons == {"example_button1"}

MayStart == ncalls < MaxConcCalls /\ Cardinality({ l \in Listeners : Running(l) }) < MaxInFlight

\* variant: every listener has a queue of its own
QueuePerListener(l) == TRUE

\* the four listeners run the same function, process_request, and are given
\* no concurrency_limit or concurrency_id: their calls wait in one queue,
\* which starts a call when no other is running
QueueFree(l) == \A l2 \in Listeners \ {l} : calls[l2].pc # "stream"

\* events are triggered, and the page is reloaded, while calls are in
\* progress; the calls of process_request run one at a time, in any order
NextQueued ==
    \/ \E c \in Clients, m \in Messages : MayStart /\ Submit(c, m)
    \/ \E b \in ConcButtons, c \in Clients : MayStart /\ ExampleClick(b, c)
    \/ \E c \in Clients : ncalls < MaxConcCalls /\ Refresh(c)
    \/ \E l \in Listeners : DropCall(l)
    \/ \E b \in ExampleButtons : ThenProcessRequest(b)
    \/ \E l \in Listeners : QueueFree(l) /\ process_request(l)
    \/ StreamStep
    \/ \E l \in Listeners : ClearMsg(l)

SpecQueued == Init /\ [][NextQueued]_vars

\* two browser sessions, each with its own state, user_id and chatbot values:
\* the user of one types the messages, the user of the other clicks an
\* example button (two calls run at the same time only on different listeners)
TypingClients == {1}
ClickingClients == {2}
SessionClients == TypingClients \cup ClickingClients

InitSessions ==
    /\ memory = [t \in ThreadIds |-> NoCkpt]
    /\ state = [s \in SessionClients \X Reloads |-> EmptyDict]
    /\ user_id = [s \in SessionClients \X Reloads |-> 0]
    /\ gsid = [c \in SessionClients |-> 0]
    /\ ghist = [c \in SessionClients |-> <<>>]
    /\ gmsg = [c \in SessionClients |-> None]
    /\ calls = [l \in Listeners |-> IdleCall]
    /\ last = IdleCall
    /\ execs = [t \in ThreadIds |-> [n \in Nodes |-> 0]]
    /\ nextId = 1
    /\ ncalls = 0

\* each user waits for the own call to end before triggering the next event;
\* the steps of the calls of the two sessions interleave freely, which
\* includes every order the queue of process_request allows
NextSessions ==
    \/ \E c \in TypingClients, m \in Messages : MayStart /\ Idle(c) /\ Submit(c, m)
    \/ \E b \in ConcButtons, c \in ClickingClients : MayStart /\ Idle(c) /\ ExampleClick(b, c)
    \/ \E c \in SessionClients : ncalls < MaxConcCalls /\ Refresh(c)
    \/ \E l \in Listeners : DropCall(l)
    \/ CallStep

SpecSessions == InitSessions /\ [][NextSessions]_vars

\* the server process is restarted while no call is in progress: the
\* MemorySaver (memory = MemorySaver()) and the gr.State values (state,
\* user_id) live in the memory of the process and start anew; the chatbot
\* value is held by the browser page
Restart ==
    /\ Quiet
    /\ memory' = [t \in ThreadIds |-> NoCkpt]
    /\ state' = [s \in DOMAIN state |-> EmptyDict]
    /\ user_id' = [s \in DOMAIN user_id |-> 0]
    /\ UNCHANGED <<gsid, ghist, gmsg, calls, last, execs, nextId, ncalls>>

\* calls run one after the other, the page is not reloaded, and the process
\* may be restarted between calls
NextRestart ==
    \/ \E c \in Clients, m \in Messages : Quiet /\ ncalls < MaxCalls /\ Submit(c, m)
    \/ \E b \in ExampleButtons, c \in Clients :
          Quiet /\ ncalls < MaxCalls /\ ExampleClick(b, c)
    \/ CallStep
    \/ Restart

SpecRestart == Init /\ [][NextRestart]_vars

----------------------------------------------------------------------------
(* Vocabulary of the properties *)

\* the session stands before human_feedback_handler, waiting for input
Paused(ck) == ck.exists /\ ck.next \in InterruptBefore

\* the session has run to END
Completed(ck) == ck.exists /\ ck.next = END

\* P holds of the call that ended last and of every call in progress
EveryCall(P(_)) == P(last) /\ \A l \in Listeners : P(calls[l])

\* call k has got past its first yield
Begun(k) == k.pc \in {"stream", "done", "failed"}

Ended(k) == k.pc \in {"done", "failed"}

IsPrefix(s, t) == Len(s) <= Len(t) /\ SubSeq(t, 1, Len(s)) = s

LastOf(s) == s[Len(s)]

\* the node call k tried first, "none" if it has tried none
FirstTried(k) == IF k.ran # <<>> THEN k.ran[1] ELSE k.failedNode

----------------------------------------------------------------------------
(* C1: a call that carries feedback to a paused session runs                *)
(* human_feedback_handler and then recipe_finalizer, in that order, and    *)
(* never recipe_generator: what it has run is always a prefix of that      *)
(* sequence, it has run both when it returns, and when it raises it is     *)
(* recipe_finalizer that raised, after human_feedback_handler.             *)
C1_Resume(k) ==
    (Begun(k) /\ Paused(k.pre)) =>
        /\ k.kind = "feedback"
        /\ IsPrefix(k.ran, <<"human_feedback_handler", "recipe_finalizer">>)
        /\ k.pc = "done" => k.ran = <<"human_feedback_handler", "recipe_finalizer">>
        /\ k.pc = "failed" => (k.ran = <<"human_feedback_handler">>
                               /\ k.failedNode = "recipe_finalizer")

\* C1: every call resuming a paused session runs human_feedback_handler, then recipe_finalizer, never recipe_generator
C1_ResumeRunsHandlerThenFinalizer == EveryCall(C1_Resume)

C1_Witness ==
    /\ last.pc = "done"
    /\ Paused(last.pre)
    /\ last.kind = "feedback"
    /\ last.ran = <<"human_feedback_handler", "recipe_finalizer">>

----------------------------------------------------------------------------
(* C2: when recipe_generator has returned with allergenes_detected true in *)
(* a call, that call runs no further node: recipe_generator is all it has  *)
(* run, whatever the flag is by now, and it returns (it does not raise)    *)
(* with the session standing before human_feedback_handler, the checkpoint *)
(* holding what recipe_generator returned and no final_recipe, neither     *)
(* human_feedback_handler nor recipe_finalizer run on the session, and the *)
(* chatbot ending with the question about the allergenes.                  *)
C2_Flagged(k) == TruthyBool(k.genOut, "allergenes_detected")

C2_NothingAfterGenerator(k) ==
    C2_Flagged(k) =>
        /\ k.ran = <<"recipe_generator">>
        /\ k.failedNode = "none"
        /\ k.state = k.genOut
        /\ ~Has(k.state, "final_recipe")
        /\ LastOf(k.history).user = "None"
        /\ LastOf(k.history).bot[1] = "Are you allergic to any of the following ingredients:\n"

\* C2: after recipe_generator flags allergens the call stops before human_feedback_handler, the paused state stored, no final_recipe
C2_StopsBeforeHandler ==
    /\ EveryCall(C2_NothingAfterGenerator)
    /\ (Quiet /\ Ended(last) /\ C2_Flagged(last)) =>
          /\ last.pc = "done"
          /\ Paused(memory[last.user_id])
          /\ memory[last.user_id].values = last.genOut
          /\ ~Has(memory[last.user_id].values, "final_recipe")
          /\ guid[last.client] = last.user_id =>
                (gstate[last.client] = last.state /\ ghist[last.client] = last.history)
          /\ execs[last.user_id]["human_feedback_handler"] = 0
          /\ execs[last.user_id]["recipe_finalizer"] = 0

C2_Witness ==
    /\ Quiet
    /\ last.pc = "done"
    /\ C2_Flagged(last)
    /\ last.ran = <<"recipe_generator">>
    /\ Paused(memory[last.user_id])

----------------------------------------------------------------------------
(* C3: a first call on a new session whose classifier answer carries no    *)
(* 'ALLERGENES FOUND' marker returns completed, with final_recipe equal to *)
(* recipe.  (The code raises IndexError in recipe_generator instead.)      *)
C3_NoConcernCompletes ==
    (Ended(last) /\ last.kind = "new" /\ last.found = "not found") =>
        /\ last.pc = "done"
        /\ Has(last.state, "final_recipe")
        /\ last.state["final_recipe"] = last.state["recipe"]

----------------------------------------------------------------------------
(* C5: a call on a session that has completed runs no node and makes no    *)
(* capability call, and the session's checkpoint stays as it was.          *)
C5_NoOp(k) ==
    (Begun(k) /\ Completed(k.pre)) =>
        /\ k.ran = <<>>
        /\ k.failedNode = "none"
        /\ k.prompts = <<>>
        /\ memory[k.user_id] = k.pre

\* C5: every call on a completed session runs no node, calls no capability, leaves the checkpoint as it was
C5_CompletedSessionUntouched == EveryCall(C5_NoOp)

C5_Witness ==
    /\ last.pc = "done"
    /\ Completed(last.pre)
    /\ last.message # ""
    /\ memory[last.user_id] = last.pre

----------------------------------------------------------------------------
(* C4: of the calls of process_request that events of one session ask for  *)
(* while the session is paused, no two run at the same time and no two run *)
(* recipe_finalizer as resumers: the call that finds the session paused    *)
(* resumes it (C1), a call that finds it completed runs nothing and leaves  *)
(* the checkpoint as it was (C5), and the feedback in the checkpoint is    *)
(* that of the call that resumed.                                          *)
BothFinalize(a, b) ==
    /\ a.kind = "feedback" /\ b.kind = "feedback"
    /\ Begun(a) /\ Begun(b)
    /\ a.user_id = b.user_id
    /\ Paused(a.pre) /\ Paused(b.pre)
    /\ Contains(a.ran, "recipe_finalizer")
    /\ Contains(b.ran, "recipe_finalizer")

C4_OneAtATime == Cardinality({ l \in Listeners : calls[l].pc = "stream" }) <= 1

C4_NoLostUpdate(k) ==
    Contains(k.ran, "human_feedback_handler") =>
        /\ Has(memory[k.user_id].values, "human_feedback")
        /\ memory[k.user_id].values["human_feedback"] = k.message

\* C4: calls on one paused session run one at a time; only one of them resumes it and runs recipe_finalizer, the others find what it left
C4_ResumesAreSerialized ==
    /\ C4_OneAtATime
    /\ \A l \in Listeners : ~BothFinalize(last, calls[l])
    /\ \A l1, l2 \in Listeners : l1 # l2 => ~BothFinalize(calls[l1], calls[l2])
    /\ EveryCall(C1_Resume)
    /\ EveryCall(C5_NoOp)
    /\ EveryCall(C4_NoLostUpdate)

\* two events of one session asked for process_request while the session was
\* paused: the one that ran second has found the session completed by the
\* other, with the other's feedback, and has returned
C4_Witness ==
    /\ last.pc = "done"
    /\ last.behind
    /\ last.sawPaused
    /\ Completed(last.pre)
    /\ last.ran = <<>>
    /\ last.pre.values["human_feedback"] # last.message
    /\ memory[last.user_id] = last.pre

----------------------------------------------------------------------------
(* C6: a call on a session that has completed returns normally, and what   *)
(* it hands back to the caller carries the stored final_recipe: the state  *)
(* holds it and the chatbot ends with the final-recipe entry showing it.   *)
C6_Replay(k) ==
    (Ended(k) /\ Completed(k.pre)) =>
        /\ k.pc = "done"
        /\ Has(k.state, "final_recipe")
        /\ k.state["final_recipe"] = k.pre.values["final_recipe"]
        /\ k.history # <<>>
        /\ LastOf(k.history) =
              [user |-> "None",
               bot |-> <<"Here's your final recipe:\n\n", k.pre.values["final_recipe"]>>]
        /\ guid[k.client] = k.user_id =>
              (ghist[k.client] = k.history /\ gstate[k.client] = k.state)

\* C6: the call that ended on a completed session returned the stored final_recipe in state and chatbot
C6_CompletedSessionReplays == C6_Replay(last)

C6_Witness ==
    /\ last.pc = "done"
    /\ Completed(last.pre)
    /\ last.kind = "other"
    /\ last.pre.values["final_recipe"] # last.pre.values["recipe"]
    /\ LastOf(last.history).bot[2] = last.pre.values["final_recipe"]

----------------------------------------------------------------------------
(* C7: when a node raises, the call aborts and the session's checkpoint is *)
(* the one stored before the node started: it holds the values the node    *)
(* was given, none of the keys the node writes has changed, and the node   *)
(* is still the one to run.  The next call on the session tries exactly    *)
(* that node first.                                                        *)
NodeWrites(n) ==
    CASE n = "recipe_generator" -> {"recipe", "allergenes", "allergenes_detected"}
      [] n = "human_feedback_handler" -> {"allergenes_detected"}
      [] n = "recipe_finalizer" -> {"final_recipe"}

SameAt(d, e, key) == Has(d, key) = Has(e, key) /\ (Has(d, key) => d[key] = e[key])

C7_NothingCommitted ==
    (Quiet /\ last.pc = "failed") =>
        LET ck == memory[last.user_id]
        IN  /\ last.failedNode \in Nodes
            /\ ck.exists
            /\ ck.next = last.failedNode
            /\ ck.values = last.loc
            /\ \A key \in NodeWrites(last.failedNode) : SameAt(ck.values, last.pre.values, key)
            /\ guid[last.client] = last.user_id =>
                  \A key \in NodeWrites(last.failedNode) :
                      SameAt(gstate[last.client], last.pre.values, key)

C7_Retry(k) ==
    (Begun(k) /\ k.pre.exists /\ k.pre.next \in Nodes \ InterruptBefore) =>
        /\ FirstTried(k) \in {"none", k.pre.next}
        /\ Ended(k) => FirstTried(k) = k.pre.next

\* C7: a raising node commits nothing, and the next call tries that node first
C7_FailedNodeIsRetried == C7_NothingCommitted /\ EveryCall(C7_Retry)

C7_Witness ==
    /\ Ended(last)
    /\ last.pre.exists
    /\ last.pre.next = "recipe_finalizer"
    /\ last.ran = <<"recipe_finalizer">>

C7_WitnessGenerator ==
    /\ Ended(last)
    /\ last.pre.exists
    /\ last.pre.next = "recipe_generator"
    /\ last.ran = <<"recipe_generator">>

----------------------------------------------------------------------------
(* C8 as stated: once a session's checkpoint holds allergenes_detected, no *)
(* step changes its value.  (human_feedback_handler resets it.)            *)
FlagKept(t) ==
    Has(memory[t].values, "allergenes_detected") =>
        /\ Has(memory'[t].values, "allergenes_detected")
        /\ memory'[t].values["allergenes_detected"] = memory[t].values["allergenes_detected"]

\* C8 as stated: allergenes_detected, once in the checkpoint, never changes
C8_FlagNeverChanges == [][\A t \in ThreadIds : FlagKept(t)]_vars

(* C8 amended (calls of a session running one after the other):           *)
(* allergenes_detected is first set by a run of                            *)
(* recipe_generator, and its value in the checkpoint changes only in a     *)
(* step in which human_feedback_handler runs, from true to false; no step  *)
(* of recipe_finalizer, update_state or process_request changes it.        *)
Ran(t, n) == execs'[t][n] = execs[t][n] + 1

FlagStep(t) ==
    LET old == memory[t].values
        new == memory'[t].values
    IN  /\ Has(old, "allergenes_detected") => Has(new, "allergenes_detected")
        /\ (~Has(old, "allergenes_detected") /\ Has(new, "allergenes_detected")) =>
              Ran(t, "recipe_generator")
        /\ (Has(old, "allergenes_detected")
              /\ new["allergenes_detected"] # old["allergenes_detected"]) =>
              /\ Ran(t, "human_feedback_handler")
              /\ old["allergenes_detected"]
              /\ ~new["allergenes_detected"]

\* C8 amended: allergenes_detected is set by recipe_generator and changed only by human_feedback_handler, to false
C8_FlagChangedOnlyByHandler == [][\A t \in ThreadIds : FlagStep(t)]_vars

C8_Witness ==
    \E t \in ThreadIds :
        /\ execs[t]["human_feedback_handler"] = 1
        /\ execs[t]["recipe_finalizer"] = 1
        /\ memory[t].values["allergenes_detected"] = FALSE

----------------------------------------------------------------------------
(* C9 as stated: a call on a session that has a checkpoint and does not    *)
(* wait for input is rejected with an error before any node is run.        *)
(* (The code has no such error: the call returns or re-runs a node.)       *)
NotWaiting(k) == k.pre.exists /\ ~Paused(k.pre)

C9_Rejected(k) ==
    (Ended(k) /\ NotWaiting(k)) =>
        /\ k.pc = "failed"
        /\ k.ran = <<>>
        /\ k.failedNode = "none"

\* C9 as stated: a call on a session with a checkpoint that is not waiting is rejected before any node runs
C9_UnexpectedInputIsRejected == C9_Rejected(last)

(* C9 amended (calls of a session running one after the other): a call on *)
(* a session that has a checkpoint and does not wait                       *)
(* for input is never rejected: it is not taken as feedback, the message   *)
(* is dropped; on a completed session it returns normally having run no    *)
(* node, otherwise it runs the session's pending node and raises only if   *)
(* a node raises.                                                          *)
C9_Accepted(k) ==
    (Begun(k) /\ NotWaiting(k)) =>
        /\ k.kind = "other"
        /\ ~Has(k.pre.values, "human_feedback") => ~Has(k.state, "human_feedback")
        /\ Has(k.pre.values, "human_feedback") =>
              k.state["human_feedback"] = k.pre.values["human_feedback"]
        /\ k.state["recipe_request"] = k.pre.values["recipe_request"]
        /\ k.pc = "failed" => k.failedNode \in Nodes
        /\ Completed(k.pre) => (k.pc # "failed" /\ k.ran = <<>>)
        /\ (Ended(k) /\ ~Completed(k.pre)) => FirstTried(k) = k.pre.next

\* C9 amended: such a call is not rejected; it drops the message, runs nothing on a completed session, else the pending node
C9_UnexpectedInputIsNotRejected == EveryCall(C9_Accepted)

C9_Witness ==
    /\ last.pc = "done"
    /\ NotWaiting(last)
    /\ Completed(last.pre)
    /\ last.message = "m1"
    /\ last.ran = <<>>

----------------------------------------------------------------------------
(* C10: recipe_finalizer, given a non-empty human_feedback, makes one      *)
(* capability call whose prompt holds the recipe and the feedback, and     *)
(* final_recipe is the answer of that call; given no or an empty           *)
(* human_feedback it makes no call and final_recipe is the recipe.  A      *)
(* paused session resumed with an empty message completes with             *)
(* final_recipe equal to recipe.                                           *)
C10_Finalized(k) ==
    (k.ran # <<>> /\ LastOf(k.ran) = "recipe_finalizer") =>
        IF Has(k.state, "human_feedback") /\ k.state["human_feedback"] # ""
        THEN /\ k.prompts # <<>>
             /\ LastOf(k.prompts) =
                   <<"Modify this recipe according to dietary restrictions: ",
                     k.state["recipe"], "\nRestrictions: ", k.state["human_feedback"]>>
             /\ k.state["final_recipe"] = k.answer
        ELSE /\ k.prompts = <<>>
             /\ k.state["final_recipe"] = k.state["recipe"]

C10_EmptyFeedback(k) ==
    (k.pc = "done" /\ k.kind = "feedback" /\ Paused(k.pre) /\ k.message = "") =>
        /\ LastOf(k.ran) = "recipe_finalizer"
        /\ k.state["final_recipe"] = k.state["recipe"]
        /\ memory[k.user_id].values["final_recipe"] = k.state["recipe"]

\* C10: final_recipe is the revision of recipe by human_feedback if that is non-empty, else recipe, without a capability call
C10_FinalRecipe == EveryCall(C10_Finalized) /\ C10_EmptyFeedback(last)

C10_Witness ==
    /\ last.pc = "done"
    /\ last.kind = "feedback"
    /\ last.message = "m1"
    /\ last.state["final_recipe"] = last.answer
    /\ last.state["final_recipe"] # last.state["recipe"]

C10_WitnessEmpty ==
    /\ last.pc = "done"
    /\ last.kind = "feedback"
    /\ last.message = ""
    /\ last.state["final_recipe"] = last.state["recipe"]

----------------------------------------------------------------------------
(* C11: a session that returned the waiting outcome is still paused when   *)
(* the next call arrives, whatever happened to the process in between, and *)
(* that call, carrying the feedback, addresses the same session and        *)
(* continues at human_feedback_handler.  (The checkpoints are kept by a    *)
(* MemorySaver and the session values by gr.State, both in the memory of   *)
(* the process: a restart loses them and the next message starts a new     *)
(* session.)                                                               *)
WaitingOutcome(k) == k.pc = "done" /\ k.ran = <<"recipe_generator">>

C11_StateSurvives ==
    (Quiet /\ WaitingOutcome(last)) =>
        /\ Paused(memory[last.user_id])
        /\ memory[last.user_id].values = last.state
        /\ gstate[last.client] = last.state

C11_Continues(k) ==
    (Begun(k) /\ WaitingOutcome(last) /\ last.client = k.client) =>
        /\ k.kind = "feedback"
        /\ k.user_id = last.user_id
        /\ Paused(k.pre)
        /\ FirstTried(k) \in {"none", "human_feedback_handler"}

\* C11: a paused session stays paused across a process restart and the next submit continues it at human_feedback_handler
C11_PausedSessionSurvivesRestart ==
    /\ C11_StateSurvives
    /\ \A l \in Listeners : C11_Continues(calls[l])

----------------------------------------------------------------------------
(* C12: when recipe_generator has returned, the node to run next is         *)
(* human_feedback_handler iff allergenes_detected is true, else            *)
(* recipe_finalizer.  From a state recipe_generator returns with the flag  *)
(* false, the edges lead to recipe_finalizer, before which the graph does  *)
(* not stop, and from there to END: the session completes without having   *)
(* been paused.  (In the runs of the program recipe_generator returns with *)
(* the flag true only, see C18; the edge for the flag false is checked on  *)
(* the states recipe_generator would return.)                              *)
C12_Routing(k) ==
    k.ran = <<"recipe_generator">> =>
        /\ k.nxt = "human_feedback_handler" <=> k.loc["allergenes_detected"]
        /\ k.nxt = "recipe_finalizer" <=> ~k.loc["allergenes_detected"]
        /\ memory[k.user_id].next = "human_feedback_handler"
              <=> memory[k.user_id].values["allergenes_detected"]

\* the states recipe_generator may return: those of the classifier answers
\* with the marker, and their like with the flag false
GeneratorReturns ==
    { Upd(recipe_generator([x \in {"recipe_request"} |-> m], recipe, resp),
          "allergenes_detected", flag) :
        m \in Messages, recipe \in Texts,
        resp \in { r \in Responses : ~GeneratorRaises(r) }, flag \in BOOLEAN }

C12_Edge(s) ==
    LET ck == AfterNode(StreamInput(NoCkpt, [x \in {"recipe_request"} |-> s["recipe_request"]]),
                        "recipe_generator", s)
    IN  /\ ck.next = "human_feedback_handler" <=> s["allergenes_detected"]
        /\ ck.next = "recipe_finalizer" <=> ~s["allergenes_detected"]
        /\ Paused(ck) <=> s["allergenes_detected"]
        /\ ~s["allergenes_detected"] =>
              \A revision \in Texts :
                  LET done == AfterNode(ck, "recipe_finalizer", recipe_finalizer(s, revision))
                  IN  /\ Completed(done)
                      /\ ~Paused(done)
                      /\ done.values["final_recipe"] = s["recipe"]

\* C12: after recipe_generator the edge follows allergenes_detected; with the flag false it leads to recipe_finalizer and on to END, without a pause
C12_EdgeFollowsFlag ==
    /\ EveryCall(C12_Routing)
    /\ \A s \in GeneratorReturns : C12_Edge(s)

\* a call has run recipe_generator, the flag is true and the session stands
\* before human_feedback_handler
C12_Witness ==
    /\ last.pc = "done"
    /\ last.ran = <<"recipe_generator">>
    /\ last.loc["allergenes_detected"]
    /\ last.nxt = "human_feedback_handler"
    /\ Paused(memory[last.user_id])

----------------------------------------------------------------------------
(* C13: a session's checkpoint holds final_recipe iff recipe_finalizer has *)
(* run to completion on that session; a run of recipe_finalizer that       *)
(* raised has set nothing.  The same holds of the state a call hands back: *)
(* it holds final_recipe iff the session held it before the call or the    *)
(* call has run recipe_finalizer.                                          *)
C13_Thread(t) ==
    Has(memory[t].values, "final_recipe") <=> execs[t]["recipe_finalizer"] >= 1

C13_Call(k) ==
    Begun(k) =>
        (Has(k.state, "final_recipe") <=>
            (Has(k.pre.values, "final_recipe") \/ Contains(k.ran, "recipe_finalizer")))

\* C13: final_recipe is set iff recipe_finalizer has run successfully on the session
C13_ResultIffFinalized ==
    /\ \A t \in ThreadIds : C13_Thread(t)
    /\ EveryCall(C13_Call)

\* recipe_finalizer raised once, leaving no final_recipe, then ran and set it
C13_Witness ==
    /\ last.pc = "done"
    /\ last.ran = <<"recipe_finalizer">>
    /\ last.pre.next = "recipe_finalizer"
    /\ ~Has(last.pre.values, "final_recipe")
    /\ execs[last.user_id]["recipe_finalizer"] = 1
    /\ Has(memory[last.user_id].values, "final_recipe")

----------------------------------------------------------------------------
(* C14: human_feedback is set or changed, in the checkpoint and in the     *)
(* state the caller holds, only by a step that finds allergenes_detected   *)
(* true there (reloading the page empties the caller's state);             *)
(* a call stores its message as human_feedback only if the session's       *)
(* checkpoint had allergenes_detected true when the call began, and every  *)
(* other call leaves human_feedback as it was.                             *)
C14_ThreadStep(t) ==
    (Has(memory'[t].values, "human_feedback")
        /\ ~SameAt(memory[t].values, memory'[t].values, "human_feedback")) =>
        TruthyBool(memory[t].values, "allergenes_detected")

C14_ClientStep(c) ==
    (Has(gstate'[c], "human_feedback")
        /\ ~SameAt(gstate[c], gstate'[c], "human_feedback")) =>
        TruthyBool(gstate[c], "allergenes_detected")

C14_Call(k) ==
    Begun(k) =>
        IF k.kind = "feedback"
        THEN /\ TruthyBool(k.pre.values, "allergenes_detected")
             /\ k.state["human_feedback"] = k.message
        ELSE SameAt(k.state, k.pre.values, "human_feedback")

C14_Thread(t) ==
    Has(memory[t].values, "human_feedback") =>
        /\ Has(memory[t].values, "allergenes_detected")
        /\ execs[t]["recipe_generator"] >= 1

\* C14: a message is stored as human_feedback only when allergenes_detected is true at that submit
C14_FeedbackOnlyWhenFlagged ==
    /\ [](EveryCall(C14_Call) /\ \A t \in ThreadIds : C14_Thread(t))
    /\ [][/\ \A t \in ThreadIds : C14_ThreadStep(t)
          /\ \A c \in Clients : C14_ClientStep(c)]_vars

C14_Witness ==
    /\ last.kind = "feedback"
    /\ last.message = "m1"
    /\ last.pre.values["allergenes_detected"]
    /\ ~Has(last.pre.values, "human_feedback")
    /\ memory[last.user_id].values["human_feedback"] = "m1"

----------------------------------------------------------------------------
(* C15: calls of different browser sessions, interleaved in any way, work  *)
(* on different threads; a step of a call reads and changes the checkpoint *)
(* of its own thread and the values of its own browser session only; what  *)
(* a call finds in its checkpoint and in its browser session is what its   *)
(* own last step left there; and every call runs as it does alone: the     *)
(* properties C1, C5, C7, C13 of calls run one after the other hold.       *)
(* A call whose page has been reloaded keeps its thread; the values of the *)
(* page are no longer its own.                                             *)
C15_OwnThreads ==
    /\ \A c1, c2 \in SessionClients : (c1 # c2 /\ guid[c1] # 0) => guid[c1] # guid[c2]
    /\ \A l1, l2 \in Listeners :
          (l1 # l2 /\ calls[l1].pc = "stream" /\ calls[l2].pc = "stream") =>
              /\ calls[l1].client # calls[l2].client
              /\ calls[l1].user_id # calls[l2].user_id

C15_Undisturbed(k) ==
    k.pc = "stream" =>
        /\ IF k.started
           THEN /\ memory[k.user_id].values = k.loc
                /\ memory[k.user_id].next = k.nxt
           ELSE memory[k.user_id] =
                   IF k.kind = "feedback" THEN update_state(k.pre, k.state) ELSE k.pre
        /\ ~Detached(k) =>
              /\ gstate[k.client] = k.state
              /\ ghist[k.client] = k.history
              /\ guid[k.client] = k.user_id

C15_AsAlone ==
    /\ EveryCall(C1_Resume)
    /\ EveryCall(C5_NoOp)
    /\ EveryCall(C7_Retry)
    /\ \A t \in ThreadIds : C13_Thread(t)

Moved(l) == calls'[l] # calls[l]

C15_Step ==
    /\ Cardinality({ t \in ThreadIds : memory'[t] # memory[t] }) <= 1
    /\ Cardinality({ c \in SessionClients : gstate'[c] # gstate[c] \/ guid'[c] # guid[c]
                                             \/ ghist'[c] # ghist[c] }) <= 1
    /\ \A t \in ThreadIds :
          memory'[t] # memory[t] =>
              \E l \in Listeners :
                  Moved(l) /\ (calls[l].user_id = t \/ calls'[l].user_id = t)
    /\ \A c \in SessionClients :
          (gstate'[c] # gstate[c] \/ guid'[c] # guid[c] \/ ghist'[c] # ghist[c]) =>
              \/ \E l \in Listeners :
                    Moved(l) /\ calls[l].client = c /\ ~Detached(calls[l])
              \/ /\ guid'[c] = 0 /\ gstate'[c] = EmptyDict /\ ghist'[c] = <<>>
                 /\ memory' = memory
                 /\ \A l \in Listeners : Moved(l) => calls[l].client = c

\* C15: calls of different sessions never touch each other's checkpoint or values, and each runs as it does alone
C15_SessionsAreIndependent ==
    /\ [](C15_OwnThreads /\ (\A l \in Listeners : C15_Undisturbed(calls[l])) /\ C15_AsAlone)
    /\ [][C15_Step]_vars

\* one session is being resumed while another is being started
C15_Witness ==
    \E l1, l2 \in Listeners :
        /\ calls[l1].client # calls[l2].client
        /\ calls[l1].ran = <<"human_feedback_handler">>
        /\ calls[l2].ran = <<"recipe_generator">>
        /\ calls[l1].user_id # calls[l2].user_id

----------------------------------------------------------------------------
(* C16: the question a call appends to the chatbot when recipe_generator   *)
(* has flagged allergens contains the allergenes text recipe_generator     *)
(* stored, in full.  (The code shows allergenes[2:]: the first two         *)
(* characters of the stored text are missing from the prompt.)             *)
ContainsSeq(t, s) ==
    \E i \in 0..(Len(t) - Len(s)) : SubSeq(t, i + 1, i + Len(s)) = s

C16_Prompt(k) ==
    (k.ran = <<"recipe_generator">> /\ k.loc["allergenes_detected"]) =>
        /\ k.history # <<>>
        /\ ContainsSeq(LastOf(k.history).bot, k.loc["allergenes"])

\* C16: the waiting prompt contains the stored allergenes text in full
C16_PromptShowsAllergenes == EveryCall(C16_Prompt)

----------------------------------------------------------------------------
(* C18: whenever recipe_generator has returned, the classifier's answer    *)
(* held the marker, allergenes_detected is true and the node to run next   *)
(* is human_feedback_handler: no call runs recipe_finalizer after          *)
(* recipe_generator.  A call in which the answer holds no marker aborts    *)
(* in recipe_generator with IndexError, and the checkpoint's recipe,       *)
(* allergenes and allergenes_detected are as before the call.              *)
C18_Returned(k) ==
    (k.ran # <<>> /\ k.ran[1] = "recipe_generator") =>
        /\ k.ran = <<"recipe_generator">>
        /\ k.found = "found"
        /\ k.loc["allergenes_detected"]
        /\ k.nxt = "human_feedback_handler"

C18_Raised(k) ==
    (Ended(k) /\ k.found = "not found") =>
        /\ k.pc = "failed"
        /\ k.failedNode = "recipe_generator"
        /\ k.failure = "IndexError"
        /\ k.ran = <<>>
        /\ Quiet => \A key \in NodeWrites("recipe_generator") :
                        SameAt(memory[k.user_id].values, k.pre.values, key)

C18_Thread(t) ==
    /\ Has(memory[t].values, "allergenes_detected") <=> execs[t]["recipe_generator"] >= 1
    /\ execs[t]["recipe_finalizer"] <= execs[t]["human_feedback_handler"]
    /\ (Has(memory[t].values, "allergenes_detected")
          /\ execs[t]["human_feedback_handler"] = 0) =>
             memory[t].values["allergenes_detected"]

\* C18: recipe_generator returns only with allergenes_detected true and raises on an answer without the marker; the edge to recipe_finalizer is never taken
C18_GeneratorAlwaysFlags ==
    /\ EveryCall(C18_Returned)
    /\ C18_Raised(last)
    /\ \A t \in ThreadIds : C18_Thread(t)

\* recipe_generator returned on a session on which it had raised before
C18_Witness ==
    /\ last.pc = "done"
    /\ last.ran = <<"recipe_generator">>
    /\ last.found = "found"
    /\ last.pre.exists
    /\ last.pre.next = "recipe_generator"
    /\ memory[last.user_id].values["allergenes_detected"]

\* recipe_generator raised on an answer without the marker
C18_WitnessRaised ==
    /\ Quiet
    /\ last.pc = "failed"
    /\ last.failure = "IndexError"
    /\ last.found = "not found"
    /\ ~Has(memory[last.user_id].values, "allergenes_detected")

----------------------------------------------------------------------------
(* C19: once a session's checkpoint or the state the caller holds for the  *)
(* session has a recipe_request, no step changes it (reloading the page    *)
(* makes the caller leave the session).  The first call of a session stores *)
(* its message as recipe_request; every later call keeps the               *)
(* recipe_request and either stores its message as human_feedback, which   *)
(* it does iff the session is paused, or stores it nowhere.                *)
C19_ThreadStep(t) ==
    Has(memory[t].values, "recipe_request") =>
        SameAt(memory[t].values, memory'[t].values, "recipe_request")

C19_ClientStep(c) ==
    (Has(gstate[c], "recipe_request") /\ guid'[c] = guid[c]) =>
        SameAt(gstate[c], gstate'[c], "recipe_request")

C19_Call(k) ==
    Begun(k) =>
        IF k.kind = "new"
        THEN /\ ~k.pre.exists
             /\ k.state["recipe_request"] = k.message
        ELSE /\ k.pre.exists
             /\ k.state["recipe_request"] = k.pre.values["recipe_request"]
             /\ k.kind = "feedback" <=> Paused(k.pre)
             /\ IF k.kind = "feedback"
                THEN k.state["human_feedback"] = k.message
                ELSE SameAt(k.state, k.pre.values, "human_feedback")

\* C19: recipe_request is fixed by the first submit; a later message becomes human_feedback if the session is paused and is dropped otherwise
C19_RequestIsFixed ==
    /\ []EveryCall(C19_Call)
    /\ [][/\ \A t \in ThreadIds : C19_ThreadStep(t)
          /\ \A c \in Clients : C19_ClientStep(c)]_vars

\* a retry after a failure, with another message: recipe_generator ran on the first request
C19_Witness ==
    /\ last.kind = "other"
    /\ last.message = "m1"
    /\ last.pre.next = "recipe_generator"
    /\ last.ran = <<"recipe_generator">>
    /\ last.state["recipe_request"] # "m1"
    /\ memory[last.user_id].values["recipe_request"] = last.pre.values["recipe_request"]

----------------------------------------------------------------------------
(* C20: with the calls of a session running one after the other, whenever  *)
(* a call has returned or raised and the page has not been reloaded since, *)
(* the state the browser session holds has                                 *)
(* the same keys and values as the latest checkpoint of the session's      *)
(* thread, and the branch the next call takes from it is the one the       *)
(* checkpoint calls for: new iff the thread has no checkpoint, feedback    *)
(* iff the session is paused.                                              *)
C20_SameValues ==
    (Ended(last) /\ Idle(last.client) /\ guid[last.client] = last.user_id) =>
        /\ memory[last.user_id].exists
        /\ gstate[last.client] = get_state(memory[last.user_id])
        /\ IsFeedback(gstate[last.client]) <=> Paused(memory[last.user_id])
        /\ ~IsNew(gstate[last.client])

C20_Decision(k) ==
    Begun(k) =>
        /\ k.kind = "new" <=> ~k.pre.exists
        /\ k.kind = "feedback" <=> Paused(k.pre)
        /\ k.kind = "other" <=> (k.pre.exists /\ ~Paused(k.pre))

\* C20: when a call has ended, the caller-held state equals the latest checkpoint's values, so the next call's branch agrees with the checkpoint
C20_CallerCopyMatchesCheckpoint == C20_SameValues /\ EveryCall(C20_Decision)

\* a call raised in recipe_finalizer after human_feedback_handler had run
C20_Witness ==
    /\ Quiet
    /\ last.pc = "failed"
    /\ last.ran = <<"human_feedback_handler">>
    /\ gstate[last.client] = memory[last.user_id].values
    /\ gstate[last.client]["human_feedback"] = "m1"
    /\ ~gstate[last.client]["allergenes_detected"]

====
